---- MODULE Spec2Model ----
(***************************************************************************)
(* DagRenamer (src/pipeline/ala_dagRenamer.py): the editable outliner, its *)
(* undo stack, the special rename, search and replace, reset, apply and    *)
(* reimport, as a state machine over the GUI event handlers.               *)
(*                                                                         *)
(* A name is a sequence of one-character strings.  A tree item is known by *)
(* its index in the list _populateTree returns; the DAG node of item i is  *)
(* node i.  Every item is enabled and editable (no default camera, locked  *)
(* or referenced node).  Patterns of the search field are literal texts.   *)
(* Maya's DAG keeps its shape: a DAG-change, Undo or Redo event of Maya is  *)
(* seen by the tool only through its callback.                             *)
(*                                                                         *)
(* The asset importer's scan of one asset directory                        *)
(* (src/pipeline/importassetscatalogue.py) and the curve extraction tool   *)
(* (src/pipeline/ala_curveExtraction.py) are state machines of their own,  *)
(* ImportSpec and CurveSpec; each specification holds the variables of the *)
(* other tools at rest.                                                    *)
(***************************************************************************)
EXTENDS Integers, Sequences, FiniteSets, TLC

VARIABLES
    dagDepths,          \* Maya: depth of each transform, in MItDag order
    dagNames,           \* Maya: name of each transform
    originalText,       \* originalTree: text of each item
    editText,           \* editableTree: text of each item
    oldNameData,        \* editableTree: data(UserRole)["oldName"] of each item
    background,         \* editableTree: background colour of each item
    signalsBlocked,     \* editableTree.signalsBlocked()
    selected,           \* editableTree.selectedItems(), in selection order
    undoStack,          \* undoStack: the commands
    undoIndex,          \* undoStack.index()
    searchText,         \* self.searchText
    warnedDagChange,    \* self.warnedDagChange
    warningLabelVisible,\* self.warningLabel.isVisible()
    warnDialogOpen,     \* the modal "DAG Changed" message box is showing
    opCount,            \* the user actions and Maya events so far
    \* importassetscatalogue.py, scan of one asset directory
    assetFiles,         \* names of the files in the asset directory
    hasVariantsDir,     \* the asset directory has a subdirectory variants
    variantFiles,       \* names of the files in variants/
    case_insensitive,   \* the argument of import_assets
    assetInfo,          \* what scan_asset_directory returned
    \* ala_curveExtraction.py
    pointParam,         \* Maya: closestPoint parameter of each point on the curves
    sceneSelection,     \* Maya: cmds.ls(selection=True, flatten=True)
    targetCurve,        \* self.targetCurve
    locators,           \* Maya: the locators created so far, in creation order
    raisedError,        \* the last handler ended in cmds.error
    extractCount        \* the Extract Curve clicks so far

renamerVars == <<dagDepths, dagNames, originalText, editText, oldNameData, background,
                 signalsBlocked, selected, undoStack, undoIndex, searchText,
                 warnedDagChange, warningLabelVisible, warnDialogOpen, opCount>>

importVars == <<assetFiles, hasVariantsDir, variantFiles, case_insensitive, assetInfo>>

curveVars == <<pointParam, sceneSelection, targetCurve, locators, raisedError,
               extractCount>>

vars == <<renamerVars, importVars, curveVars>>

\* a name that is no name: Python's None
None == <<>>

\* the renamer's window is not open
RenamerIdle ==
    /\ dagDepths = <<>>
    /\ dagNames = <<>>
    /\ originalText = <<>>
    /\ editText = <<>>
    /\ oldNameData = <<>>
    /\ background = <<>>
    /\ signalsBlocked = FALSE
    /\ selected = <<>>
    /\ undoStack = <<>>
    /\ undoIndex = 0
    /\ searchText = <<>>
    /\ warnedDagChange = FALSE
    /\ warningLabelVisible = FALSE
    /\ warnDialogOpen = FALSE
    /\ opCount = 0

\* self.targetCurve = None
NoCurve == "None"

\* the importer has scanned nothing
ImportIdle ==
    /\ assetFiles = {}
    /\ hasVariantsDir = FALSE
    /\ variantFiles = {}
    /\ case_insensitive = TRUE
    /\ assetInfo = [scanned |-> FALSE]

\* the curve extraction window is not open
CurveIdle ==
    /\ pointParam = <<>>
    /\ sceneSelection = <<>>
    /\ targetCurve = NoCurve
    /\ locators = <<>>
    /\ raisedError = FALSE
    /\ extractCount = 0

----------------------------------------------------------------------------
(* Bounds *)

\* the user actions and Maya events of a run: edits, selections, searches,
\* renaming commands, confirmed applies, answered reimports and Maya's
\* callbacks; undo, redo, closing the warning and the other actions that
\* change nothing are not counted
MaxOps == 3

----------------------------------------------------------------------------
(* Characters and strings *)

Digits == <<"0", "1", "2", "3", "4", "5", "6", "7", "8", "9">>

Letters == <<"A", "B", "C", "D", "E", "F", "G", "H", "I", "J", "K", "L", "M",
             "N", "O", "P", "Q", "R", "S", "T", "U", "V", "W", "X", "Y", "Z">>

LowerLetters == <<"a", "b", "c", "d", "e", "f", "g", "h", "i", "j", "k", "l", "m",
                  "n", "o", "p", "q", "r", "s", "t", "u", "v", "w", "x", "y", "z">>

\* str.lower() of one character, as re.IGNORECASE compares
Lower(c) ==
    IF \E i \in 1..Len(Letters) : Letters[i] = c
    THEN LowerLetters[CHOOSE i \in 1..Len(Letters) : Letters[i] = c]
    ELSE c

\* str.strip(): leading and trailing whitespace removed
RECURSIVE LStrip(_)
LStrip(s) == IF s # <<>> /\ Head(s) = " " THEN LStrip(Tail(s)) ELSE s

RECURSIVE RStrip(_)
RStrip(s) ==
    IF s # <<>> /\ s[Len(s)] = " " THEN RStrip(SubSeq(s, 1, Len(s) - 1)) ELSE s

Strip(s) == RStrip(LStrip(s))

Reverse(s) == [i \in 1..Len(s) |-> s[Len(s) + 1 - i]]

SeqRange(s) == {s[i] : i \in 1..Len(s)}

\* [x for x in s if x in keep]
RECURSIVE Filter(_, _)
Filter(s, keep) ==
    IF s = <<>> THEN <<>>
    ELSE (IF Head(s) \in keep THEN <<Head(s)>> ELSE <<>>) \o Filter(Tail(s), keep)

----------------------------------------------------------------------------
(* re.search and re.sub for a literal pattern *)

CharEq(a, b, caseSensitive) == IF caseSensitive THEN a = b ELSE Lower(a) = Lower(b)

\* the pattern matches the text at position p
MatchAt(pattern, text, p, caseSensitive) ==
    /\ p + Len(pattern) - 1 <= Len(text)
    /\ \A j \in 1..Len(pattern) : CharEq(pattern[j], text[p + j - 1], caseSensitive)

ReSearch(pattern, text, caseSensitive) ==
    \E p \in 1..(Len(text) + 1) : MatchAt(pattern, text, p, caseSensitive)

\* re.sub(pattern, repl, text): every non-overlapping match, left to right,
\* is replaced; the empty pattern matches before every character and at the end
RECURSIVE ReSubFrom(_, _, _, _, _)
ReSubFrom(pattern, repl, text, p, caseSensitive) ==
    IF p > Len(text)
    THEN (IF pattern = <<>> THEN repl ELSE <<>>)
    ELSE IF pattern = <<>>
    THEN repl \o <<text[p]>> \o ReSubFrom(pattern, repl, text, p + 1, caseSensitive)
    ELSE IF MatchAt(pattern, text, p, caseSensitive)
    THEN repl \o ReSubFrom(pattern, repl, text, p + Len(pattern), caseSensitive)
    ELSE <<text[p]>> \o ReSubFrom(pattern, repl, text, p + 1, caseSensitive)

ReSub(pattern, repl, text, caseSensitive) ==
    ReSubFrom(pattern, repl, text, 1, caseSensitive)

----------------------------------------------------------------------------
(* The trees *)

Items == 1..Len(dagDepths)

\* _populateTree: the parent of item i is stack.get(depth - 1), the last item
\* of that depth created before it; 0 for a top-level item
Parent(i) ==
    IF dagDepths[i] = 1 THEN 0
    ELSE LET before == {j \in 1..(i - 1) : dagDepths[j] = dagDepths[i] - 1}
         IN  IF before = {} THEN 0
             ELSE CHOOSE j \in before : \A k \in before : k <= j

\* item.child(0..childCount()-1), in the order addChild appended them
Children(p) == Filter([i \in 1..Len(dagDepths) |-> i], {i \in Items : Parent(i) = p})

RECURSIVE traversePostOrderItem(_)
RECURSIVE PostOrderEach(_)
traversePostOrderItem(item) == PostOrderEach(Children(item)) \o <<item>>
PostOrderEach(items) ==
    IF items = <<>> THEN <<>>
    ELSE traversePostOrderItem(Head(items)) \o PostOrderEach(Tail(items))

traversePostOrder == PostOrderEach(Children(0))

RECURSIVE traversePreOrderItem(_)
RECURSIVE PreOrderEach(_)
traversePreOrderItem(item) == <<item>> \o PreOrderEach(Children(item))
PreOrderEach(items) ==
    IF items = <<>> THEN <<>>
    ELSE traversePreOrderItem(Head(items)) \o PreOrderEach(Tail(items))

\* mutant: the children are visited before their parent
traversePreOrder_ChildrenFirst == PostOrderEach(Children(0))

traversePreOrder == PreOrderEach(Children(0))

----------------------------------------------------------------------------
(* The editable tree widget and the undo commands *)

\* the part of the window a text change can touch
Widget ==
    [text |-> editText, old |-> oldNameData, bg |-> background,
     blocked |-> signalsBlocked, stack |-> undoStack, index |-> undoIndex]

RenameCommand(item, newName, oldName) ==
    [description |-> <<"Rename">>,
     changes |-> <<[item |-> item, oldName |-> oldName, newName |-> newName]>>]

MultiRenameCommand(items, newNames, oldNames, description) ==
    [description |-> description,
     changes |-> [k \in 1..Len(items) |->
                    [item |-> items[k], oldName |-> oldNames[k],
                     newName |-> newNames[k]]]]

\* QUndoStack.push: the commands above the index are dropped, the command is
\* appended and the index moves onto it (its redo is applied by the caller)
StackPush(w, command) ==
    [w EXCEPT !.stack = Append(SubSeq(w.stack, 1, w.index), command),
              !.index = w.index + 1]

\* _onItemChanged, run with the item's new text already in place
OnItemChanged(w, item, programmatic) ==
    LET editableNewText == Strip(w.text[item])
        editableOldText == w.old[item]
        originalTextOf  == Strip(originalText[item])
    IN  IF editableNewText = <<>>
        THEN \* the text is set back; the return leaves the signals blocked
             [w EXCEPT !.blocked = TRUE, !.text[item] = editableOldText]
        ELSE LET coloured ==
                     [w EXCEPT !.bg[item] = IF editableNewText # originalTextOf
                                            THEN "changed" ELSE "unchanged",
                               !.old[item] = editableNewText]
             IN  IF programmatic
                 THEN coloured
                 ELSE \* push calls RenameCommand.redo: setTextProgrammatic,
                      \* with the signals still blocked
                      [StackPush(coloured,
                                 RenameCommand(item, editableNewText, editableOldText))
                         EXCEPT !.text[item] = editableNewText]

\* item.setText(0, text): an unchanged text emits nothing; a changed text emits
\* itemChanged, which reaches _onItemChanged unless the signals are blocked
SetText(w, item, text, programmatic) ==
    IF w.text[item] = text THEN w
    ELSE LET set == [w EXCEPT !.text[item] = text]
         IN  IF w.blocked THEN set ELSE OnItemChanged(set, item, programmatic)

setTextProgrammatic(w, item, text) == SetText(w, item, text, TRUE)

\* RenameCommand.redo / MultiRenameCommand.redo: the changes in order
RECURSIVE RedoChanges(_, _)
RedoChanges(w, changes) ==
    IF changes = <<>> THEN w
    ELSE RedoChanges(setTextProgrammatic(w, Head(changes).item, Head(changes).newName),
                     Tail(changes))

\* RenameCommand.undo / MultiRenameCommand.undo: the changes in order
RECURSIVE UndoChanges(_, _)
UndoChanges(w, changes) ==
    IF changes = <<>> THEN w
    ELSE UndoChanges(setTextProgrammatic(w, Head(changes).item, Head(changes).oldName),
                     Tail(changes))

\* self.undoStack.push(command): Qt calls command.redo()
PushCommand(w, command) == StackPush(RedoChanges(w, command.changes), command)

\* QUndoStack.undo
UndoStep(w) ==
    IF w.index = 0 THEN w
    ELSE [UndoChanges(w, w.stack[w.index].changes) EXCEPT !.index = w.index - 1]

\* QUndoStack.redo
RedoStep(w) ==
    IF w.index = Len(w.stack) THEN w
    ELSE [RedoChanges(w, w.stack[w.index + 1].changes) EXCEPT !.index = w.index + 1]

\* the window after the handler left the widget as w
SetWidget(w) ==
    /\ editText' = w.text
    /\ oldNameData' = w.old
    /\ background' = w.bg
    /\ signalsBlocked' = w.blocked
    /\ undoStack' = w.stack
    /\ undoIndex' = w.index

----------------------------------------------------------------------------
(* The special rename *)

\* f"{seq:0{digitCount}d}"
RECURSIVE Decimal(_)
Decimal(n) ==
    IF n < 10 THEN <<Digits[n + 1]>> ELSE Decimal(n \div 10) \o <<Digits[(n % 10) + 1]>>

RECURSIVE Zeros(_)
Zeros(n) == IF n <= 0 THEN <<>> ELSE <<"0">> \o Zeros(n - 1)

FormatZeroPadded(seq, digitCount) ==
    Zeros(digitCount - Len(Decimal(seq))) \o Decimal(seq)

\* intToLetters: the loop appends the least significant letter first; the
\* result is reversed
RECURSIVE LettersLoop(_, _)
LettersLoop(num, width) ==
    IF width = 0 THEN <<>>
    ELSE <<Letters[(num % 26) + 1]>> \o LettersLoop(num \div 26, width - 1)

intToLetters(num, width) == Reverse(LettersLoop(num - 1, width))

\* the length of the match of (?:[#\$])+ at position p
RECURSIVE RunLength(_, _)
RunLength(text, p) ==
    IF p <= Len(text) /\ text[p] \in {"#", "$"} THEN 1 + RunLength(text, p + 1) ELSE 0

\* replacer(match): the token's first character decides
Replacer(token, item, seq) ==
    IF token[1] = "#" THEN FormatZeroPadded(seq, Len(token))
    ELSE IF token[1] = "$" THEN intToLetters(seq, Len(token))
    ELSE IF token[1] = "@"
         THEN (IF Parent(item) # 0 THEN editText[Parent(item)] ELSE editText[item])
    ELSE editText[item]

\* re.sub(r"((?:[#\$])+|[!@])", replacer, specialText)
RECURSIVE SubTokensFrom(_, _, _, _)
SubTokensFrom(specialText, p, item, seq) ==
    IF p > Len(specialText) THEN <<>>
    ELSE IF specialText[p] \in {"#", "$"}
    THEN LET n == RunLength(specialText, p)
         IN  Replacer(SubSeq(specialText, p, p + n - 1), item, seq)
             \o SubTokensFrom(specialText, p + n, item, seq)
    ELSE IF specialText[p] \in {"!", "@"}
    THEN Replacer(<<specialText[p]>>, item, seq)
         \o SubTokensFrom(specialText, p + 1, item, seq)
    ELSE <<specialText[p]>> \o SubTokensFrom(specialText, p + 1, item, seq)

computeNewNameForItem(item, seq, specialText) ==
    SubTokensFrom(specialText, 1, item, seq)

\* the length of the run, from position p, of characters inside (or outside) chars
RECURSIVE RunOf(_, _, _, _)
RunOf(text, p, chars, inside) ==
    IF p <= Len(text) /\ ((text[p] \in chars) = inside)
    THEN 1 + RunOf(text, p + 1, chars, inside) ELSE 0

\* the special text with every run of the character c (every single c when
\* runs is FALSE) replaced by repl[length of the run], and the text between
\* two of them renamed as computeNewNameForItem renames it
RECURSIVE SubstituteOnly(_, _, _, _, _, _, _)
SubstituteOnly(text, p, item, seq, c, runs, repl) ==
    IF p > Len(text) THEN <<>>
    ELSE IF text[p] = c
    THEN LET n == IF runs THEN RunOf(text, p, {c}, TRUE) ELSE 1
         IN  repl[n] \o SubstituteOnly(text, p + n, item, seq, c, runs, repl)
    ELSE LET n == RunOf(text, p, {c}, FALSE)
         IN  computeNewNameForItem(item, seq, SubSeq(text, p, p + n - 1))
             \o SubstituteOnly(text, p + n, item, seq, c, runs, repl)

\* the selected items in pre-order, reversed when the checkbox is set
PreOrderedItems(selectionOrderReversed) ==
    LET preOrderedItems == Filter(traversePreOrder, SeqRange(selected))
    IN  IF selectionOrderReversed THEN Reverse(preOrderedItems) ELSE preOrderedItems

\* mutant: the names are computed one item at a time, so that '@' reads the
\* name the same command has just given to the parent
SpecialRenameCommand_Sequential(text, selectionOrderReversed) ==
    LET specialText == Strip(text)
        items == PreOrderedItems(selectionOrderReversed)
        oldNames == [k \in 1..Len(items) |-> editText[items[k]]]
        newNames == [k \in 1..Len(items) |->
            LET earlier == {j \in 1..(k - 1) : items[j] = Parent(items[k])}
            IN  IF earlier = {}
                THEN computeNewNameForItem(items[k], k, specialText)
                ELSE LET j == CHOOSE j \in earlier : TRUE
                     IN  SubstituteOnly(specialText, 1, items[k], k, "@", FALSE,
                            [n \in 1..1 |->
                                computeNewNameForItem(items[j], j, specialText)])]
    IN  MultiRenameCommand(items, newNames, oldNames,
                           <<"Special Rename with", specialText>>)

SpecialRenameCommand(text, selectionOrderReversed) ==
    LET specialText == Strip(text)
        items == PreOrderedItems(selectionOrderReversed)
        oldNames == [k \in 1..Len(items) |-> editText[items[k]]]
        newNames == [k \in 1..Len(items) |->
                        computeNewNameForItem(items[k], k, specialText)]
    IN  MultiRenameCommand(items, newNames, oldNames,
                           <<"Special Rename with", specialText>>)

----------------------------------------------------------------------------
(* Inputs *)

\* the scenes the window is opened on: depths and names in MItDag order
Scenes ==
    { [depths |-> <<1, 2>>, names |-> << <<"a">>, <<"a", "a">> >>],
      [depths |-> <<1, 1>>, names |-> << <<"b">>, <<"a">> >>] }

\* what the user types into an item's editor
EditTexts == { <<>>, <<"c", " ">> }

\* what the user types into the special rename editor
SpecialTexts == { <<"#">>, <<"$">>, <<"#", "$">>, <<"!", "x">>, <<"@", "#">> }

\* what the user types into the search and the replace fields
SearchTexts == { <<>>, <<"a">> }
ReplaceTexts == { <<>>, <<"c">> }

\* the ordered selections of the items
Selections ==
    {s \in UNION {[1..n -> Items] : n \in 0..Len(dagDepths)} :
        \A i, j \in 1..Len(s) : i # j => s[i] # s[j]}

\* one more counted step of the run
CountOp ==
    /\ opCount < MaxOps
    /\ opCount' = opCount + 1

----------------------------------------------------------------------------
(* The window *)

\* _populateTrees on the current DAG (both trees are rebuilt, blockSignals(False)
\* ends _populateTree)
PopulateTrees(names) ==
    /\ originalText' = names
    /\ editText' = names
    /\ oldNameData' = names
    /\ background' = [i \in 1..Len(names) |-> "unchanged"]
    /\ signalsBlocked' = FALSE
    /\ selected' = <<>>

Init ==
    /\ \E scene \in Scenes :
          /\ dagDepths = scene.depths
          /\ dagNames = scene.names
          /\ originalText = scene.names
          /\ editText = scene.names
          /\ oldNameData = scene.names
          /\ background = [i \in 1..Len(scene.names) |-> "unchanged"]
    /\ signalsBlocked = FALSE
    /\ selected = <<>>
    /\ undoStack = <<>>
    /\ undoIndex = 0
    /\ searchText = <<>>
    /\ warnedDagChange = FALSE
    /\ warningLabelVisible = FALSE
    /\ warnDialogOpen = FALSE
    /\ opCount = 0
    /\ ImportIdle
    /\ CurveIdle

\* the user commits the editor of an item: the model's setData is setText
UserEdit(item, text) ==
    /\ UNCHANGED <<importVars, curveVars>>
    /\ ~warnDialogOpen
    /\ text # editText[item]
    /\ CountOp
    /\ SetWidget(SetText(Widget, item, text, FALSE))
    /\ UNCHANGED <<dagDepths, dagNames, originalText, selected, searchText,
                   warnedDagChange, warningLabelVisible, warnDialogOpen>>

\* the user selects items in the editable tree
UserSelect(selection) ==
    /\ UNCHANGED <<importVars, curveVars>>
    /\ ~warnDialogOpen
    /\ selected' = selection
    /\ selected # selection
    /\ CountOp
    /\ UNCHANGED <<dagDepths, dagNames, originalText, editText, oldNameData,
                   background, signalsBlocked, undoStack, undoIndex, searchText,
                   warnedDagChange, warningLabelVisible, warnDialogOpen>>

Undo ==
    /\ UNCHANGED <<importVars, curveVars>>
    /\ ~warnDialogOpen
    /\ undoIndex > 0
    /\ SetWidget(UndoStep(Widget))
    /\ UNCHANGED <<dagDepths, dagNames, originalText, selected, searchText,
                   warnedDagChange, warningLabelVisible, warnDialogOpen, opCount>>

Redo ==
    /\ UNCHANGED <<importVars, curveVars>>
    /\ ~warnDialogOpen
    /\ undoIndex < Len(undoStack)
    /\ SetWidget(RedoStep(Widget))
    /\ UNCHANGED <<dagDepths, dagNames, originalText, selected, searchText,
                   warnedDagChange, warningLabelVisible, warnDialogOpen, opCount>>

applySpecialRenameToTree(text, selectionOrderReversed) ==
    /\ UNCHANGED <<importVars, curveVars>>
    /\ ~warnDialogOpen
    /\ CountOp
    /\ selected # <<>>
    /\ LET command == SpecialRenameCommand(text, selectionOrderReversed)
       IN  SetWidget(PushCommand(Widget, command))
    /\ UNCHANGED <<dagDepths, dagNames, originalText, selected, searchText,
                   warnedDagChange, warningLabelVisible, warnDialogOpen>>

searchAndSelectItems(pattern, caseSensitive) ==
    /\ UNCHANGED <<importVars, curveVars>>
    /\ ~warnDialogOpen
    /\ searchText' = pattern
    /\ selected' = IF pattern = <<>> THEN <<>>
                   ELSE Filter(traversePreOrder,
                               {i \in Items : ReSearch(pattern, editText[i], caseSensitive)})
    /\ searchText' # searchText \/ selected' # selected
    /\ CountOp
    /\ UNCHANGED <<dagDepths, dagNames, originalText, editText, oldNameData,
                   background, signalsBlocked, undoStack, undoIndex,
                   warnedDagChange, warningLabelVisible, warnDialogOpen>>

ReplaceCommand(replaceText, caseSensitive) ==
    LET oldNames == [k \in 1..Len(selected) |-> editText[selected[k]]]
        newNames == [k \in 1..Len(selected) |->
                        ReSub(searchText, replaceText, editText[selected[k]],
                              caseSensitive)]
    IN  MultiRenameCommand(selected, newNames, oldNames,
                           <<"Replace", searchText, "with", replaceText>>)

replaceSearchTextInSelectedItems(replaceText, caseSensitive) ==
    /\ UNCHANGED <<importVars, curveVars>>
    /\ ~warnDialogOpen
    /\ CountOp
    /\ searchText # replaceText
    /\ selected # <<>>
    /\ LET command == ReplaceCommand(replaceText, caseSensitive)
       IN  SetWidget(PushCommand(Widget, command))
    /\ UNCHANGED <<dagDepths, dagNames, originalText, selected, searchText,
                   warnedDagChange, warningLabelVisible, warnDialogOpen>>

\* mutant: the old names are read from the original tree
ResetCommand_OldFromOriginal ==
    LET changedItems == Filter(traversePostOrder,
                               {i \in Items : editText[i] # originalText[i]})
    IN  MultiRenameCommand(changedItems,
                           [k \in 1..Len(changedItems) |-> originalText[changedItems[k]]],
                           [k \in 1..Len(changedItems) |-> originalText[changedItems[k]]],
                           <<"Reset Names">>)

ResetCommand ==
    LET changedItems == Filter(traversePostOrder,
                               {i \in Items : editText[i] # originalText[i]})
    IN  MultiRenameCommand(changedItems,
                           [k \in 1..Len(changedItems) |-> originalText[changedItems[k]]],
                           [k \in 1..Len(changedItems) |-> editText[changedItems[k]]],
                           <<"Reset Names">>)

resetNodes ==
    /\ UNCHANGED <<importVars, curveVars>>
    /\ ~warnDialogOpen
    /\ IF ResetCommand.changes = <<>>
       THEN UNCHANGED <<editText, oldNameData, background, signalsBlocked,
                        undoStack, undoIndex, opCount>>
       ELSE /\ CountOp
            /\ SetWidget(PushCommand(Widget, ResetCommand))
    /\ UNCHANGED <<dagDepths, dagNames, originalText, selected, searchText,
                   warnedDagChange, warningLabelVisible, warnDialogOpen>>

\* _applyChangesToDagNodes: dagNode.setName on every item whose stripped text
\* is not empty and differs from the stripped original text
AppliedNames ==
    [i \in 1..Len(dagNames) |->
        IF Strip(editText[i]) # <<>> /\ Strip(editText[i]) # Strip(originalText[i])
        THEN Strip(editText[i]) ELSE dagNames[i]]

\* _doApplyChangesToDagNodes; reply is the answer to the confirmation dialog
doApplyChangesToDagNodes(reply) ==
    /\ UNCHANGED <<importVars, curveVars>>
    /\ ~warnDialogOpen
    /\ IF warnedDagChange
       THEN \* the answer to the "force apply" dialog is not used
            /\ IF reply THEN CountOp ELSE UNCHANGED opCount
            /\ UNCHANGED <<dagNames, originalText, editText, oldNameData,
                           background, signalsBlocked, selected, undoStack,
                           undoIndex>>
       ELSE IF reply
            THEN /\ CountOp
                 /\ dagNames' = AppliedNames
                 /\ undoStack' = <<>>
                 /\ undoIndex' = 0
                 /\ PopulateTrees(AppliedNames)
            ELSE UNCHANGED <<dagNames, originalText, editText, oldNameData,
                             background, signalsBlocked, selected, undoStack,
                             undoIndex, opCount>>
    /\ UNCHANGED <<dagDepths, searchText, warnedDagChange, warningLabelVisible,
                   warnDialogOpen>>

\* _doReimportNodes; reply is the answer to the confirmation dialog
doReimportNodes(reply) ==
    /\ UNCHANGED <<importVars, curveVars>>
    /\ ~warnDialogOpen
    /\ CountOp
    /\ IF reply
       THEN /\ warnedDagChange' = FALSE
            /\ warningLabelVisible' = FALSE
            /\ undoStack' = <<>>
            /\ undoIndex' = 0
            /\ PopulateTrees(dagNames)
       ELSE UNCHANGED <<originalText, editText, oldNameData, background,
                        signalsBlocked, selected, undoStack, undoIndex,
                        warnedDagChange, warningLabelVisible>>
    /\ UNCHANGED <<dagDepths, dagNames, searchText, warnDialogOpen>>

\* _warnDagChanged without its early return
warnDagChanged_NoLatch ==
    /\ warnedDagChange' = TRUE
    /\ warningLabelVisible' = TRUE
    /\ warnDialogOpen' = TRUE

\* _warnDagChanged
warnDagChanged ==
    IF warnedDagChange
    THEN UNCHANGED <<warnedDagChange, warningLabelVisible, warnDialogOpen>>
    ELSE /\ warnedDagChange' = TRUE
         /\ warningLabelVisible' = TRUE
         /\ warnDialogOpen' = TRUE

\* _setupMayaCallbacks: Maya delivers a DAG-change, "Undo" or "Redo" event
mayaCallback ==
    /\ UNCHANGED <<importVars, curveVars>>
    /\ CountOp
    /\ warnDagChanged
    /\ UNCHANGED <<dagDepths, dagNames, originalText, editText, oldNameData,
                   background, signalsBlocked, selected, undoStack, undoIndex,
                   searchText>>

\* the user presses Ok in the "DAG Changed" message box
warnDagChangedDialogOk ==
    /\ UNCHANGED <<importVars, curveVars>>
    /\ warnDialogOpen
    /\ warnDialogOpen' = FALSE
    /\ UNCHANGED <<dagDepths, dagNames, originalText, editText, oldNameData,
                   background, signalsBlocked, selected, undoStack, undoIndex,
                   searchText, warnedDagChange, warningLabelVisible, opCount>>

Next ==
    \/ \E item \in Items, text \in EditTexts : UserEdit(item, text)
    \/ \E selection \in Selections : UserSelect(selection)
    \/ Undo
    \/ Redo
    \/ \E text \in SpecialTexts, rev \in BOOLEAN : applySpecialRenameToTree(text, rev)
    \/ \E pattern \in SearchTexts, cs \in BOOLEAN : searchAndSelectItems(pattern, cs)
    \/ \E repl \in ReplaceTexts, cs \in BOOLEAN :
          replaceSearchTextInSelectedItems(repl, cs)
    \/ resetNodes
    \/ \E reply \in BOOLEAN : doApplyChangesToDagNodes(reply)
    \/ \E reply \in BOOLEAN : doReimportNodes(reply)
    \/ mayaCallback
    \/ warnDagChangedDialogOk

Spec == Init /\ [][Next]_vars

----------------------------------------------------------------------------
(* Notions the claims are stated in *)

\* the command the undo stack's index stands on
TopCommand == undoStack[undoIndex]

\* a command has just been pushed, or redone up to the top of the stack
AtTop == undoIndex > 0 /\ undoIndex = Len(undoStack)

\* the position of an item below the root: the child indexes on the way to it
ChildIndex(i) ==
    CHOOSE n \in 1..Len(Children(Parent(i))) : Children(Parent(i))[n] = i

RECURSIVE TreePath(_)
TreePath(i) == IF i = 0 THEN <<>> ELSE TreePath(Parent(i)) \o <<ChildIndex(i)>>

\* item i is shown above item j in the outliner: i is an ancestor of j, or
\* the two paths part at a child index that is smaller on the way to i
Above(i, j) ==
    LET a == TreePath(i)
        b == TreePath(j)
    IN  \/ Len(a) < Len(b) /\ SubSeq(b, 1, Len(a)) = a
        \/ \E n \in 1..Len(a) :
              /\ n <= Len(b)
              /\ SubSeq(a, 1, n - 1) = SubSeq(b, 1, n - 1)
              /\ a[n] < b[n]

\* the text with only the leftmost match of the pattern replaced
SubLeftmost(pattern, repl, text, caseSensitive) ==
    LET at == {p \in 1..(Len(text) + 1) : MatchAt(pattern, text, p, caseSensitive)}
    IN  IF at = {} THEN text
        ELSE LET p == CHOOSE p \in at : \A q \in at : p <= q
             IN  SubSeq(text, 1, p - 1) \o repl
                 \o SubSeq(text, p + Len(pattern), Len(text))

\* a step of applySpecialRenameToTree; the first two conjuncts follow from
\* the third and are written first to be tested first
SpecialRenameStep(text, rev) ==
    /\ undoIndex' = undoIndex + 1
    /\ undoStack'[undoIndex'].description = <<"Special Rename with", Strip(text)>>
    /\ applySpecialRenameToTree(text, rev)

\* a step of _replaceSearchTextInSelectedItems, written likewise
ReplaceStep(repl, cs) ==
    /\ undoIndex' = undoIndex + 1
    /\ undoStack'[undoIndex'].description = <<"Replace", searchText, "with", repl>>
    /\ replaceSearchTextInSelectedItems(repl, cs)

\* the command a step has pushed
Pushed == undoStack'[undoIndex']

----------------------------------------------------------------------------
(* The claims *)

\* C1: when the user confirms the Apply dialog, the normal one or the "force
\* apply" one shown after a DAG-change warning, every node whose editable
\* item has a non-empty stripped text different from its original item's text
\* is renamed to that text, and no other node is renamed.
C1_ConfirmedApplyRenames ==
    [][doApplyChangesToDagNodes(TRUE) =>
        \A i \in Items :
            dagNames'[i] =
                IF Strip(editText[i]) # <<>> /\ Strip(editText[i]) # originalText[i]
                THEN Strip(editText[i]) ELSE dagNames[i]]_vars

\* C2: every run of n '#' of the special text is replaced, for the k-th
\* renamed item, by k in decimal left-padded with zeros to n digits.
C2_HashRunsAreNumbers ==
    [][\A text \in SpecialTexts, rev \in BOOLEAN :
        SpecialRenameStep(text, rev) =>
            \A k \in 1..Len(Pushed.changes) :
                LET change == Pushed.changes[k]
                IN  change.newName =
                        SubstituteOnly(Strip(text), 1, change.item, k, "#", TRUE,
                            [n \in 1..Len(text) |-> FormatZeroPadded(k, n)])]_vars

\* C3: every run of n '$' of the special text is replaced, for the k-th
\* renamed item, by the k-th string of n upper-case letters in alphabetical
\* order, starting at A...A.
C3_DollarRunsAreLetters ==
    [][\A text \in SpecialTexts, rev \in BOOLEAN :
        SpecialRenameStep(text, rev) =>
            \A k \in 1..Len(Pushed.changes) :
                LET change == Pushed.changes[k]
                IN  change.newName =
                        SubstituteOnly(Strip(text), 1, change.item, k, "$", TRUE,
                            [n \in 1..Len(text) |-> intToLetters(k, n)])]_vars

\* C4: the special rename numbers the selected items from top to bottom of
\* the outliner (pre-order), whatever the order they were selected in, and
\* from bottom to top when Reverse is set: the command lists exactly the
\* selected items in that order, and '#' names each item by one more than the
\* number of selected items before it in that order.
C4_NumberedTopToBottom ==
    [][\A text \in SpecialTexts, rev \in BOOLEAN :
        SpecialRenameStep(text, rev) =>
            LET changes == Pushed.changes
                chosen == SeqRange(selected)
                Before(i, j) == IF rev THEN Above(j, i) ELSE Above(i, j)
            IN  /\ Len(changes) = Cardinality(chosen)
                /\ \A k \in 1..Len(changes) : changes[k].item \in chosen
                /\ \A j, k \in 1..Len(changes) :
                      j < k => Before(changes[j].item, changes[k].item)
                /\ text = <<"#">> =>
                      \A i \in chosen :
                          editText'[i] = FormatZeroPadded(
                              1 + Cardinality({j \in chosen : Before(j, i)}), 1)]_vars

\* C4 witness: a special rename of two or more items that were selected in
\* another order than the outliner shows them has been applied.
C4_Witness ==
    /\ AtTop
    /\ TopCommand.description[1] = "Special Rename with"
    /\ Len(TopCommand.changes) >= 2
    /\ TopCommand.changes[1].newName # TopCommand.changes[1].oldName
    /\ \A k \in 1..Len(TopCommand.changes) :
          editText[TopCommand.changes[k].item] = TopCommand.changes[k].newName
    /\ \E j, k \in 1..Len(selected) : j < k /\ Above(selected[k], selected[j])

\* C5: every '!' of the special text is replaced by the item's original name,
\* the name shown for it in the Original Outliner, also when the item was
\* renamed in the editable tree before.
C5_BangIsOriginalName ==
    [][\A text \in SpecialTexts, rev \in BOOLEAN :
        SpecialRenameStep(text, rev) =>
            \A k \in 1..Len(Pushed.changes) :
                LET change == Pushed.changes[k]
                IN  change.newName =
                        SubstituteOnly(Strip(text), 1, change.item, k, "!", FALSE,
                            [n \in 1..1 |-> originalText[change.item]])]_vars

C7_ReplacesLeftmostOnly ==
    [][\A repl \in ReplaceTexts, cs \in BOOLEAN :
        ReplaceStep(repl, cs) =>
            \A k \in 1..Len(Pushed.changes) :
                LET change == Pushed.changes[k]
                IN  change.newName =
                        SubLeftmost(searchText, repl, change.oldName, cs)]_vars

\* C8: no item of the editable tree ever has an empty name.
C8_NoEmptyName == \A i \in Items : Strip(editText[i]) # <<>>

\* C9: undo and redo, which set the text through setTextProgrammatic, never
\* add a command to the undo stack; one user edit of an item to a new
\* non-empty name pushes exactly one RenameCommand whose oldName is the item's
\* name before the edit and whose newName is the stripped new text.
C9_OnlyUserEditsPushRename ==
    [][/\ (Undo \/ Redo) => undoStack' = undoStack
       /\ \A item \in Items, text \in EditTexts :
             (UserEdit(item, text) /\ Strip(text) # <<>>) =>
                 /\ undoIndex' = undoIndex + 1
                 /\ undoStack' = Append(SubSeq(undoStack, 1, undoIndex),
                                        RenameCommand(item, Strip(text),
                                                      editText[item]))]_vars

\* C10: after _resetNodes every editable item's text equals the text of the
\* original item at the same position; when an item differed, the reset is
\* one command on the undo stack whose undo gives every item the name it had
\* before the reset; when no item differed, the undo stack is unchanged.
C10_ResetIsOneUndoableCommand ==
    [][resetNodes =>
        /\ editText' = originalText
        /\ IF editText = originalText
           THEN undoStack' = undoStack /\ undoIndex' = undoIndex
           ELSE /\ undoIndex' = undoIndex + 1
                /\ Len(undoStack') = undoIndex'
                /\ SubSeq(undoStack', 1, undoIndex) = SubSeq(undoStack, 1, undoIndex)
                /\ LET after == [text |-> editText', old |-> oldNameData',
                                  bg |-> background', blocked |-> signalsBlocked',
                                  stack |-> undoStack', index |-> undoIndex']
                       undone == UndoStep(after)
                   IN  undone.text = editText /\ undone.index = undoIndex]_vars

\* C10 witness: a reset of items that differed has just been applied.
C10_Witness ==
    /\ AtTop
    /\ TopCommand.description = <<"Reset Names">>
    /\ \E k \in 1..Len(TopCommand.changes) :
          TopCommand.changes[k].oldName # TopCommand.changes[k].newName
    /\ editText = originalText

----------------------------------------------------------------------------
(* importassetscatalogue.py: the scan of one asset directory.  A file name *)
(* is a sequence of characters; the file system tells names apart by case, *)
(* every entry of a directory but variants/ is a regular file, and         *)
(* iterdir() and the iteration of a set give their elements in any order.  *)

USD_EXTENSIONS == {<<".", "u", "s", "d">>, <<".", "u", "s", "d", "a">>, <<".", "u", "s", "d", "c">>}

THUMBNAIL_EXTENSIONS == {<<".", "j", "p", "g">>, <<".", "p", "n", "g">>, <<".", "j", "p", "e", "g">>}

\* str.lower()
LowerStr(s) == [i \in 1..Len(s) |-> Lower(s[i])]

\* PurePath.suffix: from the last dot, unless the name starts or ends with it
Suffix(name) ==
    LET dots == {i \in 1..Len(name) : name[i] = "."}
    IN  IF dots = {} THEN <<>>
        ELSE LET last == CHOOSE i \in dots : \A j \in dots : j <= i
             IN  IF last = 1 \/ last = Len(name) THEN <<>>
                 ELSE SubSeq(name, last, Len(name))

\* PurePath.stem
Stem(name) == SubSeq(name, 1, Len(name) - Len(Suffix(name)))

\* the asset directory's name
asset_name == <<"a">>

\* the files find_thumbnail may return: None is among them only if it finds none
find_thumbnail(directory, base_name, caseInsensitive) ==
    LET exact == {f \in directory : \E ext \in THUMBNAIL_EXTENSIONS : f = base_name \o ext}
        target_names == {LowerStr(base_name \o ext) : ext \in THUMBNAIL_EXTENSIONS}
        manual == {f \in directory : LowerStr(f) \in target_names}
    IN  IF exact # {} THEN exact
        ELSE IF caseInsensitive /\ manual # {} THEN manual
        ELSE {None}

\* the files scan_asset_directory may take as the primary USD file
primary_file_candidates ==
    LET exact == {f \in assetFiles : \E ext \in USD_EXTENSIONS : f = asset_name \o ext}
        target_names == {LowerStr(asset_name \o ext) : ext \in USD_EXTENSIONS}
        manual == {f \in assetFiles : LowerStr(f) \in target_names}
    IN  IF exact # {} THEN exact
        ELSE IF case_insensitive /\ manual # {} THEN manual
        ELSE {None}

\* the files of variants/ the scan takes as variant USD files
variant_files ==
    IF hasVariantsDir
    THEN {f \in variantFiles : Suffix(f) \in USD_EXTENSIONS}
    ELSE {}

\* the base name of an asset's thumbnail
ThumbnailBase == <<"t", "h", "u", "m", "b", "n", "a", "i", "l">>

\* what a variant's thumbnail is named after the variant
ThumbnailSuffix == <<"_", "t", "h", "u", "m", "b", "n", "a", "i", "l">>

\* the inputs of the scan
AssetDirs == SUBSET {<<"a", ".", "u", "s", "d">>,
                    <<"A", ".", "u", "s", "d", "c">>,
                    <<"a", ".", "U", "S", "D">>,
                    <<"t", "h", "u", "m", "b", "n", "a", "i", "l", ".", "p", "n", "g">>,
                    <<"T", "h", "u", "m", "b", "n", "a", "i", "l", ".", "J", "P", "G">>,
                    <<"b", ".", "u", "s", "d">>}

VariantDirs == SUBSET {<<"v", ".", "u", "s", "d">>,
                      <<"w", ".", "U", "S", "D">>,
                      <<"v", "_", "t", "h", "u", "m", "b", "n", "a", "i", "l", ".", "j", "p", "g">>,
                      <<"V", "_", "T", "h", "u", "m", "b", "n", "a", "i", "l", ".", "j", "p", "e", "g">>}

ImportInit ==
    /\ assetFiles \in AssetDirs
    /\ hasVariantsDir \in BOOLEAN
    /\ variantFiles \in IF hasVariantsDir THEN VariantDirs ELSE {{}}
    /\ case_insensitive \in BOOLEAN
    /\ assetInfo = [scanned |-> FALSE]
    /\ RenamerIdle
    /\ CurveIdle

scan_asset_directory ==
    /\ ~assetInfo.scanned
    /\ \E primary_file \in primary_file_candidates :
          IF primary_file = None
          THEN assetInfo' = [scanned |-> TRUE, found |-> FALSE]
          ELSE \E thumbnail \in find_thumbnail(assetFiles, ThumbnailBase, case_insensitive),
                  variant_thumbnail \in [variant_files -> variantFiles \cup {None}] :
                  /\ \A v \in variant_files :
                        variant_thumbnail[v] \in
                            find_thumbnail(variantFiles, Stem(v) \o ThumbnailSuffix,
                                           case_insensitive)
                  /\ assetInfo' = [scanned |-> TRUE, found |-> TRUE,
                                   primary_file |-> primary_file,
                                   thumbnail |-> thumbnail,
                                   variants |-> {<<v, variant_thumbnail[v]>> :
                                                    v \in variant_files}]
    /\ UNCHANGED <<assetFiles, hasVariantsDir, variantFiles, case_insensitive>>
    /\ UNCHANGED <<renamerVars, curveVars>>

ImportNext == scan_asset_directory

ImportSpec == ImportInit /\ [][ImportNext]_vars

\* C11: with case_insensitive every file the scan looks for is found although
\* its name or extension differs from the expected one in letter case only:
\* the primary USD file named after the directory, the thumbnail, each variant
\* USD file of variants/ and each variant's thumbnail.
C11_CaseInsensitiveScanFindsFiles ==
    (assetInfo.scanned /\ case_insensitive) =>
        LET IsPrimary(f) == \E ext \in USD_EXTENSIONS :
                                LowerStr(f) = LowerStr(asset_name \o ext)
            IsThumbnail(f, base) == \E ext \in THUMBNAIL_EXTENSIONS :
                                        LowerStr(f) = LowerStr(base \o ext)
        IN  /\ (\E f \in assetFiles : IsPrimary(f)) =>
                    /\ assetInfo.found
                    /\ assetInfo.primary_file \in assetFiles
                    /\ IsPrimary(assetInfo.primary_file)
            /\ assetInfo.found =>
                /\ (\E f \in assetFiles : IsThumbnail(f, ThumbnailBase)) =>
                        /\ assetInfo.thumbnail \in assetFiles
                        /\ IsThumbnail(assetInfo.thumbnail, ThumbnailBase)
                /\ hasVariantsDir =>
                    \A v \in variantFiles :
                        LowerStr(Suffix(v)) \in USD_EXTENSIONS =>
                            \E pair \in assetInfo.variants :
                                /\ pair[1] = v
                                /\ (\E f \in variantFiles :
                                        IsThumbnail(f, Stem(v) \o ThumbnailSuffix)) =>
                                        /\ pair[2] \in variantFiles
                                        /\ IsThumbnail(pair[2], Stem(v) \o ThumbnailSuffix)

----------------------------------------------------------------------------
(* ala_curveExtraction.py: the Curve Extraction window.  The scene has one *)
(* NURBS curve and a few points; Maya's closestPoint gives each point a    *)
(* parameter on the curve.  A locator's name locator_k is the number k.    *)
(* Maya names a new node as asked when no node has the name, and otherwise *)
(* counts the number at the name's end up to the first free one; a command *)
(* that creates a node leaves the node selected.  cmds.error raises.       *)

\* the Extract Curve clicks of a run
MaxExtracts == 2

\* the points of the scene: vertices of a mesh
Points == {"vtx[0]", "vtx[1]", "vtx[2]"}

\* the parameters closestPoint may return
Params == {0, 1}

PointParams == [Points -> Params]

\* what the user can select: the curve, or points in any order
SceneSelections ==
    {<<"curve">>} \cup
    {sel \in UNION {[1..n -> Points] : n \in 0..Cardinality(Points)} :
        \A i, j \in 1..Len(sel) : i # j => sel[i] # sel[j]}

\* list.sort(key=lambda x: x[1]): stable, by insertion from the left
RECURSIVE InsertByUValue(_, _)
InsertByUValue(sorted, pair) ==
    IF sorted = <<>> THEN <<pair>>
    ELSE IF sorted[Len(sorted)][2] <= pair[2] THEN Append(sorted, pair)
    ELSE Append(InsertByUValue(SubSeq(sorted, 1, Len(sorted) - 1), pair),
                sorted[Len(sorted)])

\* a list left in selection order
SortByUValue_Unsorted(pairs) == pairs

RECURSIVE SortByUValue(_)
SortByUValue(pairs) ==
    IF pairs = <<>> THEN <<>>
    ELSE InsertByUValue(SortByUValue(SubSeq(pairs, 1, Len(pairs) - 1)),
                        pairs[Len(pairs)])

\* cmds.spaceLocator(name=f"locator_{k}")[0]: the name Maya gives the node
RECURSIVE spaceLocator(_, _)
spaceLocator(k, taken) == IF k \in taken THEN spaceLocator(k + 1, taken) ELSE k

\* the loop over pointsAndUValues: locators created from the i-th pair on
RECURSIVE CreateLocators(_, _, _)
CreateLocators(scene, pointsAndUValues, i) ==
    IF i > Len(pointsAndUValues) THEN scene
    ELSE LET loc == spaceLocator(i, {scene[j].name : j \in 1..Len(scene)})
         IN  CreateLocators(
                 Append(scene, [name |-> loc,
                                point |-> pointsAndUValues[i][1],
                                curve |-> targetCurve,
                                uValue |-> pointsAndUValues[i][2]]),
                 pointsAndUValues, i + 1)

CurveInit ==
    /\ pointParam \in PointParams
    /\ sceneSelection = <<>>
    /\ targetCurve = NoCurve
    /\ locators = <<>>
    /\ raisedError = FALSE
    /\ extractCount = 0
    /\ RenamerIdle
    /\ ImportIdle

\* the user selects in Maya's viewport
selectInScene(sel) ==
    /\ sceneSelection # sel
    /\ sceneSelection' = sel
    /\ UNCHANGED <<pointParam, targetCurve, locators, raisedError, extractCount>>
    /\ UNCHANGED <<renamerVars, importVars>>

selectTargetCurve ==
    /\ IF sceneSelection = <<"curve">>
       THEN /\ targetCurve' = sceneSelection[1]
            /\ raisedError' = FALSE
       ELSE /\ raisedError' = TRUE
            /\ UNCHANGED targetCurve
    /\ UNCHANGED <<pointParam, sceneSelection, locators, extractCount>>
    /\ UNCHANGED <<renamerVars, importVars>>

extractCurve ==
    /\ extractCount < MaxExtracts
    /\ extractCount' = extractCount + 1
    /\ IF \/ targetCurve = NoCurve
          \/ sceneSelection = <<>>
          \/ Len(sceneSelection) < 2
          \/ \E i \in 1..Len(sceneSelection) : sceneSelection[i] \notin Points
       THEN /\ raisedError' = TRUE
            /\ UNCHANGED <<sceneSelection, locators>>
       ELSE LET points == sceneSelection
                pointsAndUValues ==
                    SortByUValue([i \in 1..Len(points) |->
                                     <<points[i], pointParam[points[i]]>>])
            IN  /\ locators' = CreateLocators(locators, pointsAndUValues, 1)
                /\ sceneSelection' = <<"locator">>
                /\ raisedError' = FALSE
    /\ UNCHANGED <<pointParam, targetCurve>>
    /\ UNCHANGED <<renamerVars, importVars>>

CurveNext ==
    \/ \E sel \in SceneSelections : selectInScene(sel)
    \/ selectTargetCurve
    \/ extractCurve

CurveSpec == CurveInit /\ [][CurveNext]_vars

\* Extract Curve has nothing to work on: no target curve, nothing selected,
\* or fewer than two points selected
ExtractFails ==
    \/ targetCurve = NoCurve
    \/ sceneSelection = <<>>
    \/ Cardinality({i \in 1..Len(sceneSelection) : sceneSelection[i] \in Points}) < 2

\* the locators a step created
NewLocators == SubSeq(locators', Len(locators) + 1, Len(locators'))

\* the names of the locators of the scene
LocatorNames == {locators[j].name : j \in 1..Len(locators)}

\* a step's new locators are one per selected point, in non-decreasing order
\* of the points' parameters, each on a motion path of the target curve at
\* its point's parameter
OnePerPointInParameterOrder ==
    /\ Len(NewLocators) = Len(sceneSelection)
    /\ {NewLocators[i].point : i \in 1..Len(NewLocators)} = SeqRange(sceneSelection)
    /\ \A i \in 1..Len(NewLocators) :
          /\ NewLocators[i].curve = targetCurve
          /\ NewLocators[i].uValue = pointParam[NewLocators[i].point]
    /\ \A i, j \in 1..Len(NewLocators) :
          i < j => NewLocators[i].uValue <= NewLocators[j].uValue

\* C12 (as stated): Extract Curve creates exactly one locator per selected
\* point, named locator_1 .. locator_n in non-decreasing order of the point's
\* closest-point parameter on the target curve, each on a motion path with
\* that parameter as uValue; without a target curve, with nothing selected or
\* with fewer than two points selected it raises and creates no locator.
C12_LocatorsNamedOneToN ==
    [][extractCurve =>
        IF ExtractFails
        THEN raisedError' /\ locators' = locators
        ELSE /\ ~raisedError'
             /\ OnePerPointInParameterOrder
             /\ \A i \in 1..Len(NewLocators) : NewLocators[i].name = i]_vars

\* C12 (amended): as stated, but the locators are named locator_1 ..
\* locator_n only when the scene has no locator of these names; in every
\* case the i-th new locator has the first name from locator_i up that no
\* node has, so the names grow with the parameters and none is used twice.
C12_LocatorsNamedFromFreeNames ==
    [][extractCurve =>
        IF ExtractFails
        THEN raisedError' /\ locators' = locators
        ELSE /\ ~raisedError'
             /\ OnePerPointInParameterOrder
             /\ SubSeq(locators', 1, Len(locators)) = locators
             /\ \A i \in 1..Len(NewLocators) :
                   LET taken == LocatorNames \cup
                                {NewLocators[j].name : j \in 1..(i - 1)}
                       name == NewLocators[i].name
                   IN  /\ name >= i
                       /\ name \notin taken
                       /\ \A k \in i..(name - 1) : k \in taken
             /\ (LocatorNames \cap 1..Len(NewLocators) = {}) =>
                   \A i \in 1..Len(NewLocators) : NewLocators[i].name = i]_vars

\* a second extraction has added locators to those of the first, and the
\* scene has locators created in rising order of distinct parameters
C12_Witness ==
    /\ extractCount = 2
    /\ Len(locators) >= 4
    /\ ~raisedError
    /\ \E i \in 1..Len(locators) : locators[i].name > 3
    /\ \E i, j \in 1..Len(locators) :
          /\ j = i + 1
          /\ locators[i].uValue < locators[j].uValue
          /\ locators[i].point = "vtx[2]"
          /\ locators[j].point = "vtx[0]"

----------------------------------------------------------------------------
(* The renamer's undo stack and DAG-change warning *)

\* a step of an operation that renames: a user edit, a special rename, a
\* search-replace or a reset
RenameOperation ==
    \/ \E item \in Items, text \in EditTexts : UserEdit(item, text)
    \/ \E text \in SpecialTexts, rev \in BOOLEAN : applySpecialRenameToTree(text, rev)
    \/ \E repl \in ReplaceTexts, cs \in BOOLEAN :
          replaceSearchTextInSelectedItems(repl, cs)
    \/ resetNodes

\* the editable tree and the undo stack after a step
WidgetAfter ==
    [text |-> editText', old |-> oldNameData', bg |-> background',
     blocked |-> signalsBlocked', stack |-> undoStack', index |-> undoIndex']

\* C13: after a user edit, a special rename, a search-replace or a reset has
\* renamed items, undo gives every item the text it had immediately before
\* the operation and a following redo gives the renamed texts again; whenever
\* every command is undone, every editable item's text is its name at import.
C13_UndoRedoRoundTrip ==
    [][/\ (editText' # editText /\ opCount' = opCount + 1 /\ RenameOperation) =>
             LET undone == UndoStep(WidgetAfter)
                 redone == RedoStep(undone)
             IN  /\ undone.text = editText
                 /\ redone.text = editText'
       /\ undoIndex' = 0 => editText' = originalText']_vars

\* what the DAG-change warning is not about: the trees, the selection, the
\* search text and the undo stack
BesidesWarning ==
    <<dagDepths, dagNames, originalText, editText, oldNameData, background,
      signalsBlocked, selected, undoStack, undoIndex, searchText>>

\* C14: the first DAG-change, Undo or Redo event of Maya after an import sets
\* warnedDagChange, shows the warning label and opens the warning dialog;
\* every later event, also one that comes while the dialog is open, changes
\* nothing; only a confirmed Reimport clears the flag, and it hides the label
\* and clears the undo stack, while a declined Reimport changes nothing.  The
\* warning label is visible exactly when warnedDagChange is true.
C14_WarningLatch ==
    [][/\ mayaCallback =>
             IF warnedDagChange
             THEN UNCHANGED <<BesidesWarning, warnedDagChange, warningLabelVisible,
                              warnDialogOpen>>
             ELSE /\ warnedDagChange'
                  /\ warningLabelVisible'
                  /\ ~warnDialogOpen /\ warnDialogOpen'
                  /\ UNCHANGED BesidesWarning
       /\ doReimportNodes(TRUE) =>
             /\ ~warnedDagChange'
             /\ ~warningLabelVisible'
             /\ undoStack' = <<>> /\ undoIndex' = 0
       /\ doReimportNodes(FALSE) =>
             UNCHANGED <<BesidesWarning, warnedDagChange, warningLabelVisible,
                         warnDialogOpen>>
       /\ (warnedDagChange /\ ~warnedDagChange') => doReimportNodes(TRUE)
       /\ warningLabelVisible' = warnedDagChange']_vars

\* an event has come after something else happened, the warning dialog is
\* open, and there are commands a confirmed Reimport would clear
C14_Witness ==
    /\ warnedDagChange
    /\ warningLabelVisible
    /\ warnDialogOpen
    /\ opCount >= 2
    /\ undoStack # <<>>

====
